---- MODULE Spec2Model ----
(***************************************************************************)
(* A model of telegram_calls.py: the credential file (load_config,         *)
(* save_config, the setup prompt of main), the authentication flow         *)
(* (TelegramCaller.connect, _authorize), the per-target call routine       *)
(* (TelegramCaller.call), the batch routine (call_multiple) and the        *)
(* command loop (interactive_mode).                                        *)
(*                                                                         *)
(* Python strings are sequences of one-character strings.  Two characters  *)
(* are written with a longer token: "sup2" is U+00B2 (SUPERSCRIPT TWO, for *)
(* which str.isdigit() is true and int() raises ValueError) and "\n" is    *)
(* the line feed.  An Optional value is <<>> (None) or <<v>>.  A float is  *)
(* a record: a number, or NaN.                                             *)
(***************************************************************************)
EXTENDS Integers, Sequences, FiniteSets, TLC

VARIABLES
    pc,             \* position of main(): connect, the prompts of _authorize, the loop
    authorized,     \* client.is_user_authorized(): the session is signed in
    me,             \* TelegramCaller.me
    conn,           \* what connect() returned: <<>> while it has not, <<TRUE>>, <<FALSE>>
    auth_ev,        \* the outcome of the last library call of _authorize
    ring_duration,  \* interactive_mode: ring_duration
    pre_message,    \* interactive_mode: pre_message
    line,           \* interactive_mode: the line input() returned last
    usernames,      \* call_multiple: usernames
    idx,            \* call_multiple: i of enumerate(usernames, 1)
    results,        \* call_multiple: results
    cpc,            \* position of call(): idle, entry, send, request, ring, discard, returned
    c_username,     \* call: username
    c_duration,     \* call: duration
    c_message,      \* call: message
    user,           \* call: user
    phone_call,     \* call: phone_call (id, access_hash)
    result,         \* call: the CallResult it returned
    log,            \* the library calls, sleeps, raises and returns since the line was read
    cfg_pc,         \* position of the credential part of main()
    config_file,    \* caller_config.txt: <<>> when absent, else <<content>>
    api_id,         \* main: api_id
    api_hash,       \* main: api_hash
    saved           \* the pair last given to save_config

vars == <<pc, authorized, me, conn, auth_ev, ring_duration, pre_message, line,
          usernames, idx, results, cpc, c_username, c_duration, c_message, user,
          phone_call, result, log, cfg_pc, config_file, api_id, api_hash, saved>>

sessionVars == <<pc, authorized, me, conn, auth_ev>>
settingVars == <<ring_duration, pre_message>>
batchVars == <<usernames, idx, results>>
callArgs == <<c_username, c_duration, c_message>>
configVars == <<cfg_pc, config_file, api_id, api_hash, saved>>

----------------------------------------------------------------------------
(* Bounds of the model. *)

\* Longest username given to call() in SpecCall.
MaxLen == 3
\* Longest answer typed at the API ID and API Hash prompts in SpecConfig.
MaxInput == 2

----------------------------------------------------------------------------
(* Python values. *)

None == <<>>
Some(v) == <<v>>

\* A float, in tenths of a unit: Num(5) is 5.0 and Tenths(3) is 0.3.
Tenths(t) == [nan |-> FALSE, tenths |-> t]
Num(n) == Tenths(10 * n)
NaN == [nan |-> TRUE, tenths |-> 0]

DEFAULT_RING_DURATION == Num(5)

RECURSIVE StringsOver(_, _)
StringsOver(alphabet, n) ==
    IF n = 0 THEN {<<>>}
    ELSE LET shorter == StringsOver(alphabet, n - 1)
         IN  shorter \cup {Append(s, c) : s \in {t \in shorter : Len(t) = n - 1}, c \in alphabet}

----------------------------------------------------------------------------
(* str methods. *)

Whitespace == {" ", "\n"}
AsciiDigits == {"0", "1", "2", "3", "4", "5", "6", "7", "8", "9"}

\* str.isdigit() of one character: the decimal digits and the other digit
\* characters, such as the superscripts.
IsDigitChar(c) == c \in AsciiDigits \cup {"sup2"}

DigitVal(c) ==
    CASE c = "0" -> 0 [] c = "1" -> 1 [] c = "2" -> 2 [] c = "3" -> 3 [] c = "4" -> 4
      [] c = "5" -> 5 [] c = "6" -> 6 [] c = "7" -> 7 [] c = "8" -> 8 [] c = "9" -> 9

DigitChar(d) == <<"0", "1", "2", "3", "4", "5", "6", "7", "8", "9">>[d + 1]

RECURSIVE LStrip(_)
LStrip(s) == IF s # <<>> /\ Head(s) \in Whitespace THEN LStrip(Tail(s)) ELSE s

RECURSIVE RStrip(_)
RStrip(s) ==
    IF s # <<>> /\ s[Len(s)] \in Whitespace THEN RStrip(SubSeq(s, 1, Len(s) - 1)) ELSE s

\* s.strip()
Strip(s) == RStrip(LStrip(s))

\* s.startswith(c)
StartsWith(s, c) == s # <<>> /\ Head(s) = c

\* s.isdigit()
IsDigit(s) == s # <<>> /\ \A k \in 1..Len(s) : IsDigitChar(s[k])

LowerChar(c) ==
    CASE c = "O" -> "o" [] c = "F" -> "f" [] c = "T" -> "t" [] c = "I" -> "i"
      [] c = "M" -> "m" [] c = "E" -> "e" [] c = "S" -> "s" [] c = "G" -> "g"
      [] c = "N" -> "n" [] c = "A" -> "a" [] c = "Q" -> "q" [] c = "H" -> "h"
      [] OTHER -> c

UpperChar(c) ==
    CASE c = "p" -> "P" [] c = "r" -> "R" [] c = "i" -> "I" [] c = "v" -> "V"
      [] c = "a" -> "A" [] c = "c" -> "C" [] c = "y" -> "Y" [] c = "t" -> "T"
      [] c = "m" -> "M" [] c = "e" -> "E" [] c = "o" -> "O" [] c = "u" -> "U"
      [] c = "n" -> "N"
      [] OTHER -> c

\* s.lower(), s.upper()
Lower(s) == [k \in 1..Len(s) |-> LowerChar(s[k])]
Upper(s) == [k \in 1..Len(s) |-> UpperChar(s[k])]

\* sub in s
Contains(s, sub) ==
    \E k \in 0..(Len(s) - Len(sub)) : SubSeq(s, k + 1, k + Len(sub)) = sub

RECURSIVE DecimalValue(_)
DecimalValue(s) ==
    IF s = <<>> THEN 0
    ELSE 10 * DecimalValue(SubSeq(s, 1, Len(s) - 1)) + DigitVal(s[Len(s)])

\* int(s): None when it raises ValueError.  Surrounding whitespace is dropped,
\* one sign is allowed, and every other character must be a decimal digit.
ParseInt(s) ==
    LET t == Strip(s)
        signed == t # <<>> /\ Head(t) \in {"-", "+"}
        digits == IF signed THEN Tail(t) ELSE t
    IN  IF digits = <<>> \/ \E k \in 1..Len(digits) : digits[k] \notin AsciiDigits
        THEN None
        ELSE Some(IF signed /\ Head(t) = "-" THEN 0 - DecimalValue(digits)
                  ELSE DecimalValue(digits))

RECURSIVE NatToStr(_)
NatToStr(n) ==
    IF n < 10 THEN <<DigitChar(n)>> ELSE Append(NatToStr(n \div 10), DigitChar(n % 10))

\* f"{n}" of an int
IntToStr(n) == IF n < 0 THEN <<"-">> \o NatToStr(0 - n) ELSE NatToStr(n)

\* float(s): None when it raises ValueError.  Of float's grammar the model has
\* the optionally signed decimal integers and "nan" in any letter case.
ParseFloat(s) ==
    LET t == Strip(s)
        signed == t # <<>> /\ Head(t) \in {"-", "+"}
        body == IF signed THEN Tail(t) ELSE t
    IN  IF Lower(body) = <<"n", "a", "n">> THEN Some(NaN)
        ELSE IF ParseInt(t) = None THEN None
        ELSE Some(Num(ParseInt(t)[1]))

----------------------------------------------------------------------------
(* The client library, as call() sees it. *)

Chars_noentity == <<"n", "o", "e", "n", "t", "i", "t", "y">>
Chars_timeout == <<"t", "i", "m", "e", "o", "u", "t">>
Chars_privacy == <<"n", "o", " ", "p", "r", "i", "v", "a", "c", "y">>
Chars_PRIVACY == <<"P", "R", "I", "V", "A", "C", "Y">>
Chars_nan == <<"I", "n", "v", "a", "l", "i", "d", " ", "d", "e", "l", "a", "y">>

Exc(type, seconds, msg) == [type |-> type, seconds |-> seconds, msg |-> msg]

\* The seconds a FloodWaitError carries.
FloodSeconds == {3, 60}

\* What a library call may raise: the three types call() names, and any other
\* exception, whose str() may or may not contain "privacy".
LibraryErrors ==
    {Exc("ValueError", 0, Chars_noentity), Exc("UserPrivacyRestrictedError", 0, <<>>)}
    \cup {Exc("FloodWaitError", s, <<>>) : s \in FloodSeconds}
    \cup {Exc("Exception", 0, m) : m \in {Chars_timeout, Chars_privacy}}

\* The (id, access_hash) of result.phone_call.
PhoneCalls == {[id |-> 1, access_hash |-> 11], [id |-> 2, access_hash |-> 22]}

\* asyncio.sleep(delay) raises ValueError for a NaN delay from Python 3.13 on,
\* and returns at once for one in the versions before.
SleepMayRaise(delay) == delay.nan
SleepMayReturn(delay) == TRUE

----------------------------------------------------------------------------
(* CallStatus, CallResult. *)

SUCCESS == "SUCCESS"
PRIVACY == "PRIVACY"
NOT_FOUND == "NOT_FOUND"
FLOOD == "FLOOD"
FAILED == "FAILED"

Text(kind, seconds, text, duration) ==
    [kind |-> kind, seconds |-> seconds, text |-> text, duration |-> duration]

CallResult(username, status, message) ==
    [username |-> username, status |-> status, message |-> message]

Ev(op, arg) == [op |-> op, arg |-> arg]

----------------------------------------------------------------------------
(* TelegramCaller.call *)

\* target = username.strip(), less one leading "@"
NormalizeTarget(username) ==
    LET target == Strip(username)
    IN  IF StartsWith(target, "@") THEN Tail(target) ELSE target

\* The argument of get_entity: int(target) when target.isdigit(), else target.
EntityKey(target) ==
    IF IsDigit(target)
    THEN [kind |-> "id", id |-> ParseInt(target)[1], name |-> <<>>]
    ELSE [kind |-> "username", id |-> 0, name |-> target]

\* if message:
Truthy(message) == message # None /\ message[1] # <<>>

ResultNotFound(username) ==
    CallResult(username, NOT_FOUND, Text("user not found", 0, <<>>, Num(0)))

ResultSuccess(username, duration) ==
    CallResult(username, SUCCESS, Text("call of", 0, <<>>, duration))

\* HandleException without the except FloodWaitError clause.
HandleException_NoFloodClause(username, e) ==
    IF e.type = "UserPrivacyRestrictedError"
    THEN CallResult(username, PRIVACY, Text("calls forbidden by privacy settings", 0, <<>>, Num(0)))
    ELSE IF Contains(Upper(e.msg), Chars_PRIVACY)
    THEN CallResult(username, PRIVACY, Text("calls forbidden", 0, <<>>, Num(0)))
    ELSE CallResult(username, FAILED, Text("error_msg", 0, e.msg, Num(0)))

\* The except clauses of call(), in their order.
HandleException(username, e) ==
    IF e.type = "UserPrivacyRestrictedError"
    THEN CallResult(username, PRIVACY, Text("calls forbidden by privacy settings", 0, <<>>, Num(0)))
    ELSE IF e.type = "FloodWaitError"
    THEN CallResult(username, FLOOD, Text("wait seconds", e.seconds, <<>>, Num(0)))
    ELSE IF Contains(Upper(e.msg), Chars_PRIVACY)
    THEN CallResult(username, PRIVACY, Text("calls forbidden", 0, <<>>, Num(0)))
    ELSE CallResult(username, FAILED, Text("error_msg", 0, e.msg, Num(0)))

\* The inner except ValueError around get_entity, then the outer clauses.
HandleLookupException(username, e) ==
    IF e.type = "ValueError" THEN ResultNotFound(username) ELSE HandleException(username, e)

Entered == Append(log, Ev("call", c_username))

\* What no step of call() touches.
CallFrame == UNCHANGED <<sessionVars, settingVars, line, batchVars, callArgs, configVars>>

Returns(res, events) ==
    /\ log' = events \o <<Ev("return", res)>>
    /\ result' = Some(res)
    /\ cpc' = "returned"

Raises(at, e, res, events) ==
    Returns(res, Append(events, Ev("raise", [at |-> at, exc |-> e])))

\* target.isdigit() holds and int(target) raises ValueError inside the inner
\* try: NOT_FOUND, and get_entity is not called.
GetEntityIntError ==
    /\ cpc = "entry"
    /\ IsDigit(NormalizeTarget(c_username))
    /\ ParseInt(NormalizeTarget(c_username)) = None
    /\ Returns(ResultNotFound(c_username), Entered)
    /\ UNCHANGED <<user, phone_call>>
    /\ CallFrame

CanLookup ==
    LET target == NormalizeTarget(c_username)
    IN  IsDigit(target) => ParseInt(target) # None

GetEntityOk ==
    /\ cpc = "entry"
    /\ CanLookup
    /\ LET key == EntityKey(NormalizeTarget(c_username))
       IN  /\ log' = Append(Entered, Ev("get_entity", key))
           /\ user' = Some(key)
    /\ cpc' = IF Truthy(c_message) THEN "send" ELSE "request"
    /\ UNCHANGED <<phone_call, result>>
    /\ CallFrame

GetEntityRaise ==
    /\ cpc = "entry"
    /\ CanLookup
    /\ \E e \in LibraryErrors :
         Raises("get_entity", e, HandleLookupException(c_username, e),
                Append(Entered, Ev("get_entity", EntityKey(NormalizeTarget(c_username)))))
    /\ UNCHANGED <<user, phone_call>>
    /\ CallFrame

\* send_message(user, message), then asyncio.sleep(0.3)
SendMessageOk ==
    /\ cpc = "send"
    /\ log' = log \o <<Ev("send_message", [user |-> user[1], message |-> c_message[1]]),
                       Ev("sleep", Tenths(3))>>
    /\ cpc' = "request"
    /\ UNCHANGED <<user, phone_call, result>>
    /\ CallFrame

SendMessageRaise ==
    /\ cpc = "send"
    /\ \E e \in LibraryErrors :
         Raises("send_message", e, HandleException(c_username, e),
                Append(log, Ev("send_message", [user |-> user[1], message |-> c_message[1]])))
    /\ UNCHANGED <<user, phone_call>>
    /\ CallFrame

\* client(RequestCallRequest(user_id=user, ...)) returned result.phone_call
RequestCallOk ==
    /\ cpc = "request"
    /\ \E p \in PhoneCalls :
         /\ phone_call' = Some(p)
         /\ log' = log \o <<Ev("request", user[1]), Ev("requested", p)>>
    /\ cpc' = "ring"
    /\ UNCHANGED <<user, result>>
    /\ CallFrame

RequestCallRaise ==
    /\ cpc = "request"
    /\ \E e \in LibraryErrors :
         Raises("request", e, HandleException(c_username, e), Append(log, Ev("request", user[1])))
    /\ UNCHANGED <<user, phone_call>>
    /\ CallFrame

\* asyncio.sleep(duration) returned
RingOk ==
    /\ cpc = "ring"
    /\ SleepMayReturn(c_duration)
    /\ log' = Append(log, Ev("sleep", c_duration))
    /\ cpc' = "discard"
    /\ UNCHANGED <<user, phone_call, result>>
    /\ CallFrame

\* asyncio.sleep(duration) raised ValueError: the outer except Exception
RingRaise ==
    /\ cpc = "ring"
    /\ SleepMayRaise(c_duration)
    /\ LET e == Exc("ValueError", 0, Chars_nan)
       IN  Raises("sleep", e, HandleException(c_username, e), Append(log, Ev("sleep", c_duration)))
    /\ UNCHANGED <<user, phone_call>>
    /\ CallFrame

\* client(DiscardCallRequest(peer=InputPhoneCall(call_id, access_hash), ...))
DiscardOk ==
    /\ cpc = "discard"
    /\ Returns(ResultSuccess(c_username, c_duration), Append(log, Ev("discard", phone_call[1])))
    /\ UNCHANGED <<user, phone_call>>
    /\ CallFrame

\* The discard raised: except Exception: pass
DiscardRaise ==
    /\ cpc = "discard"
    /\ \E e \in LibraryErrors :
         Returns(ResultSuccess(c_username, c_duration),
                 log \o <<Ev("discard", phone_call[1]),
                          Ev("raise", [at |-> "discard", exc |-> e])>>)
    /\ UNCHANGED <<user, phone_call>>
    /\ CallFrame

----------------------------------------------------------------------------
(* call() on its own: every username of up to MaxLen characters. *)

CallAlphabet == {"@", " ", "7", "a", "sup2"}
CallDurations == {DEFAULT_RING_DURATION, Num(0), NaN}
CallMessages == {None, Some(<<"h", "i">>), Some(<<>>)}

InitSession ==
    /\ pc = "connect"
    /\ authorized \in BOOLEAN
    /\ me = None
    /\ conn = None
    /\ auth_ev = "none"
    /\ ring_duration = DEFAULT_RING_DURATION
    /\ pre_message = None
    /\ line = <<>>
    /\ usernames = <<>>
    /\ idx = 0
    /\ results = <<>>

InitCallIdle ==
    /\ cpc = "idle"
    /\ c_username = <<>>
    /\ c_duration = DEFAULT_RING_DURATION
    /\ c_message = None
    /\ user = None
    /\ phone_call = None
    /\ result = None
    /\ log = <<>>

InitConfig ==
    /\ cfg_pc = "load"
    /\ config_file = None
    /\ api_id = None
    /\ api_hash = None
    /\ saved = None

InitCall ==
    /\ InitSession
    /\ authorized = TRUE
    /\ InitConfig
    /\ cpc = "entry"
    /\ c_username \in StringsOver(CallAlphabet, MaxLen)
    /\ c_duration \in CallDurations
    /\ c_message \in CallMessages
    /\ user = None
    /\ phone_call = None
    /\ result = None
    /\ log = <<>>

NextCall ==
    \/ GetEntityIntError
    \/ GetEntityOk
    \/ GetEntityRaise
    \/ SendMessageOk
    \/ SendMessageRaise
    \/ RequestCallOk
    \/ RequestCallRaise
    \/ RingOk
    \/ RingRaise
    \/ DiscardOk
    \/ DiscardRaise

SpecCall == InitCall /\ [][NextCall]_vars

----------------------------------------------------------------------------
(* TelegramCaller.connect, TelegramCaller._authorize and main's use of them. *)

AuthFrame ==
    UNCHANGED <<settingVars, line, batchVars, cpc, callArgs, user, phone_call, result, log,
                configVars>>

Account == Some("account")

\* is_user_authorized() is true: me = get_me(), return True; main enters the loop.
ConnectAuthorized ==
    /\ pc = "connect"
    /\ authorized
    /\ me' = Account
    /\ conn' = Some(TRUE)
    /\ pc' = "prompt"
    /\ UNCHANGED <<authorized, auth_ev>>
    /\ AuthFrame

\* is_user_authorized() is false: _authorize() asks for the phone number.
ConnectUnauthorized ==
    /\ pc = "connect"
    /\ ~authorized
    /\ pc' = "auth_phone"
    /\ UNCHANGED <<authorized, me, conn, auth_ev>>
    /\ AuthFrame

\* A library call of connect() or _authorize() raised what they do not catch:
\* main's except Exception prints it and the program ends.
ConnectRaise ==
    /\ pc \in {"connect", "auth_phone", "auth_code"}
    /\ auth_ev' = "raised"
    /\ pc' = "exit"
    /\ UNCHANGED <<authorized, me, conn>>
    /\ AuthFrame

\* An empty answer to a prompt of _authorize: continue.
AuthEmptyInput ==
    /\ pc \in {"auth_phone", "auth_code"}
    /\ auth_ev' = "empty_input"
    /\ UNCHANGED <<pc, authorized, me, conn>>
    /\ AuthFrame

AuthPhoneOk ==
    /\ pc = "auth_phone"
    /\ auth_ev' = "code_sent"
    /\ pc' = "auth_code"
    /\ UNCHANGED <<authorized, me, conn>>
    /\ AuthFrame

AuthPhoneInvalid ==
    /\ pc = "auth_phone"
    /\ auth_ev' = "phone_invalid"
    /\ UNCHANGED <<pc, authorized, me, conn>>
    /\ AuthFrame

\* FloodWaitError on send_code_request: return False, and main returns.
AuthPhoneFlood ==
    /\ pc = "auth_phone"
    /\ auth_ev' = "code_flood"
    /\ conn' = Some(FALSE)
    /\ pc' = "exit"
    /\ UNCHANGED <<authorized, me>>
    /\ AuthFrame

\* What the end of _authorize does once a sign_in succeeded.
SignedIn ==
    /\ authorized' = TRUE
    /\ me' = Account
    /\ conn' = Some(TRUE)
    /\ pc' = "prompt"

AuthCodeOk ==
    /\ pc = "auth_code"
    /\ auth_ev' = "signed_in"
    /\ SignedIn
    /\ AuthFrame

\* AuthCodeInvalid leaving the loop as if the code had been accepted.
AuthCodeInvalid_LeavesLoop ==
    /\ pc = "auth_code"
    /\ auth_ev' = "code_invalid"
    /\ me' = Account
    /\ conn' = Some(TRUE)
    /\ pc' = "prompt"
    /\ UNCHANGED authorized
    /\ AuthFrame

\* PhoneCodeInvalidError: the code is asked for again.
AuthCodeInvalid ==
    /\ pc = "auth_code"
    /\ auth_ev' = "code_invalid"
    /\ UNCHANGED <<pc, authorized, me, conn>>
    /\ AuthFrame

\* SessionPasswordNeededError: the password prompt.
AuthPasswordNeeded ==
    /\ pc = "auth_code"
    /\ auth_ev' = "password_needed"
    /\ pc' = "auth_2fa"
    /\ UNCHANGED <<authorized, me, conn>>
    /\ AuthFrame

Auth2faOk ==
    /\ pc = "auth_2fa"
    /\ auth_ev' = "signed_in_2fa"
    /\ SignedIn
    /\ AuthFrame

\* sign_in(password=...) raised: return False.
Auth2faFail ==
    /\ pc = "auth_2fa"
    /\ auth_ev' = "2fa_failed"
    /\ conn' = Some(FALSE)
    /\ pc' = "exit"
    /\ UNCHANGED <<authorized, me>>
    /\ AuthFrame

----------------------------------------------------------------------------
(* interactive_mode: the lines typed at the prompt. *)

Lines == {
    <<>>,
    <<" ">>,
    <<",">>,
    <<"/", "q", "u", "i", "t">>,
    <<"/", "Q">>,
    <<"/", "h", "e", "l", "p">>,
    <<"/", "m", "e">>,
    <<"/", "s", "t", "a", "t", "u", "s">>,
    <<"/", "t", "i", "m", "e", "s">>,
    <<"/", "t", "i", "m", "e">>,
    <<"/", "t", "i", "m", "e", " ", "7">>,
    <<"/", "T", "I", "M", "E", " ", " ", "7">>,
    <<"/", "t", "i", "m", "e", " ", "x">>,
    <<"/", "t", "i", "m", "e", " ", "7", " ", "7">>,
    <<"/", "t", "i", "m", "e", " ", "N", "a", "N">>,
    <<"/", "m", "s", "g">>,
    <<"/", "m", "s", "g", " ", "h", "i">>,
    <<"/", "m", "s", "g", " ", "o", "f", "f">>,
    <<"/", "M", "S", "G", " ", "O", "f", "F">>,
    <<"/", "m", "s", "g", " ", "o", "f", "f", " ", "a">>,
    <<"@", "a">>,
    <<" ", "7", " ">>,
    <<"@", "a", ",", "7">>,
    <<"a", " ", ",", "@", "b", " ", "sup2">>
}

\* The first whitespace-separated word of a stripped, non-empty string.
RECURSIVE FirstWord(_)
FirstWord(s) ==
    IF s = <<>> \/ Head(s) \in Whitespace THEN <<>> ELSE <<Head(s)>> \o FirstWord(Tail(s))

\* s.split(maxsplit=1) of a stripped, non-empty string
SplitMax1(s) ==
    LET first == FirstWord(s)
        rest == LStrip(SubSeq(s, Len(first) + 1, Len(s)))
    IN  IF rest = <<>> THEN <<first>> ELSE <<first, rest>>

\* s.split()
RECURSIVE Split(_)
Split(s) ==
    LET t == LStrip(s)
    IN  IF t = <<>> THEN <<>>
        ELSE <<FirstWord(t)>> \o Split(SubSeq(t, Len(FirstWord(t)) + 1, Len(t)))

\* s.replace(",", " ")
ReplaceCommas(s) == [k \in 1..Len(s) |-> IF s[k] = "," THEN " " ELSE s[k]]

\* cmd = cmd_parts[0].lower(); arg = cmd_parts[1] if len(cmd_parts) > 1 else ""
Cmd(l) == Lower(SplitMax1(Strip(l))[1])
Arg(l) == IF Len(SplitMax1(Strip(l))) > 1 THEN SplitMax1(Strip(l))[2] ELSE <<>>

IsCommand(l) == Strip(l) # <<>> /\ StartsWith(Strip(l), "/")

\* The usernames of a line that is no command.
ParseUsernames(l) == Split(ReplaceCommas(Strip(l)))

Chars_quit == <<"/", "q", "u", "i", "t">>
Chars_exit == <<"/", "e", "x", "i", "t">>
Chars_q == <<"/", "q">>
Chars_help == <<"/", "h", "e", "l", "p">>
Chars_me == <<"/", "m", "e">>
Chars_time == <<"/", "t", "i", "m", "e">>
Chars_msg == <<"/", "m", "s", "g">>
Chars_status == <<"/", "s", "t", "a", "t", "u", "s">>
Chars_off == <<"o", "f", "f">>

LoopFrame ==
    UNCHANGED <<authorized, me, conn, auth_ev, batchVars, cpc, callArgs, user, phone_call,
                result, log, configVars>>

\* if not user_input: continue
ReadEmpty ==
    /\ pc = "prompt"
    /\ \E l \in Lines : Strip(l) = <<>> /\ line' = l
    /\ UNCHANGED <<pc, settingVars>>
    /\ LoopFrame

\* input() raised EOFError or KeyboardInterrupt: break
ReadInterrupted ==
    /\ pc = "prompt"
    /\ pc' = "exit"
    /\ UNCHANGED <<settingVars, line>>
    /\ LoopFrame

CmdQuit ==
    /\ pc = "prompt"
    /\ \E l \in Lines :
         /\ IsCommand(l)
         /\ Cmd(l) \in {Chars_quit, Chars_exit, Chars_q}
         /\ line' = l
    /\ pc' = "exit"
    /\ UNCHANGED settingVars
    /\ LoopFrame

\* /help, /me, /status and the unknown commands only print.
CmdPrint ==
    /\ pc = "prompt"
    /\ \E l \in Lines :
         /\ IsCommand(l)
         /\ Cmd(l) \notin {Chars_quit, Chars_exit, Chars_q, Chars_time, Chars_msg}
         /\ line' = l
    /\ UNCHANGED <<pc, settingVars>>
    /\ LoopFrame

\* /time with an argument float() accepts
CmdTimeSet ==
    /\ pc = "prompt"
    /\ \E l \in Lines :
         /\ IsCommand(l)
         /\ Cmd(l) = Chars_time
         /\ Arg(l) # <<>>
         /\ ParseFloat(Arg(l)) # None
         /\ ring_duration' = ParseFloat(Arg(l))[1]
         /\ line' = l
    /\ UNCHANGED <<pc, pre_message>>
    /\ LoopFrame

\* CmdTimeKeep putting the default back when float() rejects the argument.
CmdTimeKeep_ResetsDuration ==
    /\ pc = "prompt"
    /\ \E l \in Lines :
         /\ IsCommand(l)
         /\ Cmd(l) = Chars_time
         /\ Arg(l) = <<>> \/ ParseFloat(Arg(l)) = None
         /\ ring_duration' = IF Arg(l) = <<>> THEN ring_duration ELSE DEFAULT_RING_DURATION
         /\ line' = l
    /\ UNCHANGED <<pc, pre_message>>
    /\ LoopFrame

\* /time without an argument, or with one float() rejects
CmdTimeKeep ==
    /\ pc = "prompt"
    /\ \E l \in Lines :
         /\ IsCommand(l)
         /\ Cmd(l) = Chars_time
         /\ Arg(l) = <<>> \/ ParseFloat(Arg(l)) = None
         /\ line' = l
    /\ UNCHANGED <<pc, settingVars>>
    /\ LoopFrame

\* /msg off
CmdMsgOff ==
    /\ pc = "prompt"
    /\ \E l \in Lines :
         /\ IsCommand(l)
         /\ Cmd(l) = Chars_msg
         /\ Lower(Arg(l)) = Chars_off
         /\ line' = l
    /\ pre_message' = None
    /\ UNCHANGED <<pc, ring_duration>>
    /\ LoopFrame

\* /msg with another argument
CmdMsgSet ==
    /\ pc = "prompt"
    /\ \E l \in Lines :
         /\ IsCommand(l)
         /\ Cmd(l) = Chars_msg
         /\ Lower(Arg(l)) # Chars_off
         /\ Arg(l) # <<>>
         /\ pre_message' = Some(Arg(l))
         /\ line' = l
    /\ UNCHANGED <<pc, ring_duration>>
    /\ LoopFrame

\* /msg without an argument
CmdMsgShow ==
    /\ pc = "prompt"
    /\ \E l \in Lines :
         /\ IsCommand(l)
         /\ Cmd(l) = Chars_msg
         /\ Arg(l) = <<>>
         /\ line' = l
    /\ UNCHANGED <<pc, settingVars>>
    /\ LoopFrame

\* A line of separators only: if not usernames: continue
CallNone ==
    /\ pc = "prompt"
    /\ \E l \in Lines :
         /\ Strip(l) # <<>>
         /\ ~IsCommand(l)
         /\ ParseUsernames(l) = <<>>
         /\ line' = l
    /\ UNCHANGED <<pc, settingVars>>
    /\ LoopFrame

\* What entering call(username, duration, message) sets.
EnterCall(username, duration, message) ==
    /\ cpc' = "entry"
    /\ c_username' = username
    /\ c_duration' = duration
    /\ c_message' = message
    /\ user' = None
    /\ phone_call' = None
    /\ result' = None

\* What is left of a call once its caller has taken the result.
LeaveCall ==
    /\ cpc' = "idle"
    /\ c_username' = <<>>
    /\ c_duration' = DEFAULT_RING_DURATION
    /\ c_message' = None
    /\ user' = None
    /\ phone_call' = None
    /\ result' = None

\* One username: await caller.call(usernames[0], ring_duration, pre_message)
CallSingle ==
    /\ pc = "prompt"
    /\ \E l \in Lines :
         /\ Strip(l) # <<>>
         /\ ~IsCommand(l)
         /\ Len(ParseUsernames(l)) = 1
         /\ line' = l
         /\ EnterCall(ParseUsernames(l)[1], ring_duration, pre_message)
    /\ pc' = "call_single"
    /\ log' = <<>>
    /\ UNCHANGED <<authorized, me, conn, auth_ev, settingVars, batchVars, configVars>>

\* call() returned to interactive_mode, which drops the result.
SingleReturn ==
    /\ pc = "call_single"
    /\ cpc = "returned"
    /\ pc' = "prompt"
    /\ LeaveCall
    /\ log' = <<>>
    /\ UNCHANGED <<authorized, me, conn, auth_ev, settingVars, line, batchVars, configVars>>

----------------------------------------------------------------------------
(* TelegramCaller.call_multiple *)

\* delay: float = 1.0
DELAY == Num(1)

\* call_multiple's call of call(): result = await self.call(username, duration)
CallOfBatch(username, duration) == EnterCall(username, duration, None)

\* Several usernames: await caller.call_multiple(usernames, ring_duration)
CallMultiple ==
    /\ pc = "prompt"
    /\ \E l \in Lines :
         /\ Strip(l) # <<>>
         /\ ~IsCommand(l)
         /\ Len(ParseUsernames(l)) > 1
         /\ line' = l
         /\ usernames' = ParseUsernames(l)
         /\ CallOfBatch(ParseUsernames(l)[1], ring_duration)
    /\ idx' = 1
    /\ results' = <<>>
    /\ pc' = "call_multiple"
    /\ log' = <<>>
    /\ UNCHANGED <<authorized, me, conn, auth_ev, settingVars, configVars>>

\* BatchNext leaving the loop at the first result that is no SUCCESS.
BatchNext_StopsAtFailure ==
    /\ pc = "call_multiple"
    /\ cpc = "returned"
    /\ idx < Len(usernames)
    /\ results' = Append(results, result[1])
    /\ IF result[1].status = SUCCESS
       THEN /\ log' = Append(log, Ev("sleep", DELAY))
            /\ idx' = idx + 1
            /\ CallOfBatch(usernames[idx + 1], c_duration)
            /\ UNCHANGED pc
       ELSE /\ pc' = "batch_done"
            /\ LeaveCall
            /\ UNCHANGED <<idx, log>>
    /\ UNCHANGED <<authorized, me, conn, auth_ev, settingVars, line, usernames, configVars>>

\* BatchNext sleeping the seconds a flood wait reported before it goes on.
BatchNext_WaitsOutFlood ==
    /\ pc = "call_multiple"
    /\ cpc = "returned"
    /\ idx < Len(usernames)
    /\ results' = Append(results, result[1])
    /\ log' = IF result[1].status = FLOOD
              THEN log \o <<Ev("sleep", Num(result[1].message.seconds)), Ev("sleep", DELAY)>>
              ELSE Append(log, Ev("sleep", DELAY))
    /\ idx' = idx + 1
    /\ CallOfBatch(usernames[idx + 1], c_duration)
    /\ UNCHANGED <<sessionVars, settingVars, line, usernames, configVars>>

\* results.append(result); i < len(usernames): sleep(delay), the next username
BatchNext ==
    /\ pc = "call_multiple"
    /\ cpc = "returned"
    /\ idx < Len(usernames)
    /\ results' = Append(results, result[1])
    /\ log' = Append(log, Ev("sleep", DELAY))
    /\ idx' = idx + 1
    /\ CallOfBatch(usernames[idx + 1], c_duration)
    /\ UNCHANGED <<sessionVars, settingVars, line, usernames, configVars>>

\* results.append(result) for the last username; return results
BatchLast ==
    /\ pc = "call_multiple"
    /\ cpc = "returned"
    /\ idx = Len(usernames)
    /\ results' = Append(results, result[1])
    /\ pc' = "batch_done"
    /\ LeaveCall
    /\ UNCHANGED <<authorized, me, conn, auth_ev, settingVars, line, usernames, idx, log,
                   configVars>>

\* call_multiple returned to interactive_mode, which drops the results.
BatchReturn ==
    /\ pc = "batch_done"
    /\ pc' = "prompt"
    /\ usernames' = <<>>
    /\ idx' = 0
    /\ results' = <<>>
    /\ log' = <<>>
    /\ UNCHANGED <<authorized, me, conn, auth_ev, settingVars, line, cpc, callArgs, user,
                   phone_call, result, configVars>>

----------------------------------------------------------------------------
(* One run of the program from the creation of the caller on. *)

Init == InitSession /\ InitCallIdle /\ InitConfig

Next ==
    \/ ConnectAuthorized
    \/ ConnectUnauthorized
    \/ ConnectRaise
    \/ AuthEmptyInput
    \/ AuthPhoneOk
    \/ AuthPhoneInvalid
    \/ AuthPhoneFlood
    \/ AuthCodeOk
    \/ AuthCodeInvalid
    \/ AuthPasswordNeeded
    \/ Auth2faOk
    \/ Auth2faFail
    \/ ReadEmpty
    \/ ReadInterrupted
    \/ CmdQuit
    \/ CmdPrint
    \/ CmdTimeSet
    \/ CmdTimeKeep
    \/ CmdMsgOff
    \/ CmdMsgSet
    \/ CmdMsgShow
    \/ CallNone
    \/ CallSingle
    \/ SingleReturn
    \/ CallMultiple
    \/ BatchNext
    \/ BatchLast
    \/ BatchReturn
    \/ GetEntityIntError
    \/ GetEntityOk
    \/ GetEntityRaise
    \/ SendMessageOk
    \/ SendMessageRaise
    \/ RequestCallOk
    \/ RequestCallRaise
    \/ RingOk
    \/ RingRaise
    \/ DiscardOk
    \/ DiscardRaise

Spec == Init /\ [][Next]_vars

----------------------------------------------------------------------------
(* load_config, save_config and the credential part of main, over the runs *)
(* of the program that share one caller_config.txt.                        *)

\* s.split("\n")
RECURSIVE SplitLines(_)
SplitLines(s) ==
    IF \A k \in 1..Len(s) : s[k] # "\n" THEN <<s>>
    ELSE LET first == CHOOSE k \in 1..Len(s) : s[k] = "\n" /\ \A j \in 1..(k - 1) : s[j] # "\n"
         IN  <<SubSeq(s, 1, first - 1)>> \o SplitLines(SubSeq(s, first + 1, Len(s)))

\* load_config(): the pair it returns, each half None or a value.
load_config(file) ==
    IF file = None THEN <<None, None>>
    ELSE LET lines == SplitLines(Strip(file[1]))
         IN  IF Len(lines) >= 2 /\ ParseInt(lines[1]) # None
             THEN <<ParseInt(lines[1]), Some(lines[2])>>
             ELSE <<None, None>>

\* save_config(): f.write(f"{api_id}\n{api_hash}\n")
save_config(id, hash) == Some(IntToStr(id) \o <<"\n">> \o hash \o <<"\n">>)

\* not api_id or not api_hash
Missing(id, hash) ==
    IF id = None \/ hash = None THEN TRUE ELSE id[1] = 0 \/ hash[1] = <<>>

ConfigAlphabet == {"7", "0", "-", "a", " "}
ConfigInputs == StringsOver(ConfigAlphabet, MaxInput)

ConfigFrame ==
    UNCHANGED <<sessionVars, settingVars, line, batchVars, cpc, callArgs, user, phone_call,
                result, log>>

\* api_id, api_hash = load_config()
LoadConfig ==
    /\ cfg_pc = "load"
    /\ api_id' = load_config(config_file)[1]
    /\ api_hash' = load_config(config_file)[2]
    /\ cfg_pc' = "loaded"
    /\ UNCHANGED <<config_file, saved>>
    /\ ConfigFrame

\* if not api_id or not api_hash: the setup prompts
ConfigMissing ==
    /\ cfg_pc = "loaded"
    /\ Missing(api_id, api_hash)
    /\ cfg_pc' = "setup"
    /\ UNCHANGED <<config_file, api_id, api_hash, saved>>
    /\ ConfigFrame

ConfigPresent ==
    /\ cfg_pc = "loaded"
    /\ ~Missing(api_id, api_hash)
    /\ cfg_pc' = "ready"
    /\ UNCHANGED <<config_file, api_id, api_hash, saved>>
    /\ ConfigFrame

\* int(api_id_input) raised ValueError: the prompt is repeated
SetupBadId ==
    /\ cfg_pc = "setup"
    /\ \E id_input \in ConfigInputs :
         ParseInt(Strip(id_input)) = None
    /\ UNCHANGED <<cfg_pc, config_file, api_id, api_hash, saved>>
    /\ ConfigFrame

\* api_id = int(api_id_input); api_hash = input().strip(); save_config(api_id, api_hash)
SetupSave ==
    /\ cfg_pc = "setup"
    /\ \E id_input \in ConfigInputs, hash_input \in ConfigInputs :
         /\ ParseInt(Strip(id_input)) # None
         /\ api_id' = ParseInt(Strip(id_input))
         /\ api_hash' = Some(Strip(hash_input))
         /\ config_file' = save_config(ParseInt(Strip(id_input))[1], Strip(hash_input))
         /\ saved' = Some(<<ParseInt(Strip(id_input))[1], Strip(hash_input)>>)
    /\ cfg_pc' = "ready"
    /\ ConfigFrame

\* The program ends and is started again: the file is what is left of the run.
Restart ==
    /\ cfg_pc = "ready"
    /\ cfg_pc' = "load"
    /\ api_id' = None
    /\ api_hash' = None
    /\ UNCHANGED <<config_file, saved>>
    /\ ConfigFrame

InitConfigRuns == InitSession /\ authorized = TRUE /\ InitCallIdle /\ InitConfig

NextConfig ==
    \/ LoadConfig
    \/ ConfigMissing
    \/ ConfigPresent
    \/ SetupBadId
    \/ SetupSave
    \/ Restart

SpecConfig == InitConfigRuns /\ [][NextConfig]_vars

----------------------------------------------------------------------------
(* Reading the log. *)

Ops(op) == {k \in 1..Len(log) : log[k].op = op}

\* Positions j and k of the log lie in the same attempt: no call() was entered
\* after the earlier and up to the later of them.
SameAttempt(j, k) ==
    LET lo == IF j < k THEN j ELSE k
        hi == IF j < k THEN k ELSE j
    IN  \A m \in (lo + 1)..hi : log[m].op # "call"

\* The usernames call() was entered with, in order.
Attempted ==
    LET calls == SelectSeq(log, LAMBDA e : e.op = "call")
    IN  [k \in 1..Len(calls) |-> calls[k].arg]

\* The results call() returned, in order.
Returned ==
    LET returns == SelectSeq(log, LAMBDA e : e.op = "return")
    IN  [k \in 1..Len(returns) |-> returns[k].arg]

LibrarySteps == {"get_entity", "send_message", "request"}

\* The raises of the library before the discard, each with the return it led to.
LibraryRaises == {k \in Ops("raise") : log[k].arg.at \in LibrarySteps}

----------------------------------------------------------------------------
(* C1 *)

\* C1, as claimed: a raise of get_entity, send_message or the request call maps
\* to NOT_FOUND for a lookup's ValueError, PRIVACY for a privacy restriction,
\* FLOOD with the seconds for a flood wait and FAILED for any other exception;
\* SUCCESS is returned only when nothing before the discard raised.
C1_AnyOtherExceptionFails ==
    /\ \A k \in LibraryRaises :
         LET e == log[k].arg.exc
             r == log[k + 1].arg
         IN  /\ log[k + 1].op = "return"
             /\ CASE e.type = "ValueError" /\ log[k].arg.at = "get_entity" ->
                       r.status = NOT_FOUND
                  [] e.type = "UserPrivacyRestrictedError" -> r.status = PRIVACY
                  [] e.type = "FloodWaitError" ->
                       r.status = FLOOD /\ r.message.seconds = e.seconds
                  [] OTHER -> r.status = FAILED
    /\ \A k \in Ops("return") :
         log[k].arg.status = SUCCESS =>
           \A j \in Ops("raise") : SameAttempt(j, k) => log[j].arg.at = "discard"

\* C1, amended: as claimed, but any other exception whose text holds "privacy"
\* in any letter case maps to PRIVACY, and only the rest to FAILED.
C1_StatusMapping ==
    /\ \A k \in LibraryRaises :
         LET e == log[k].arg.exc
             r == log[k + 1].arg
         IN  /\ log[k + 1].op = "return"
             /\ CASE e.type = "ValueError" /\ log[k].arg.at = "get_entity" ->
                       r.status = NOT_FOUND
                  [] e.type = "UserPrivacyRestrictedError" -> r.status = PRIVACY
                  [] e.type = "FloodWaitError" ->
                       r.status = FLOOD /\ r.message.seconds = e.seconds
                  [] OTHER ->
                       r.status = IF \E m \in 0..(Len(e.msg) - 7) :
                                       Lower(SubSeq(e.msg, m + 1, m + 7))
                                         = <<"p", "r", "i", "v", "a", "c", "y">>
                                  THEN PRIVACY ELSE FAILED
    /\ \A k \in Ops("return") :
         log[k].arg.status = SUCCESS =>
           \A j \in Ops("raise") : SameAttempt(j, k) => log[j].arg.at = "discard"

\* The request call raised an exception of no named type whose text holds
\* "privacy", after a message was sent, and call() returned.
C1_Witness ==
    /\ cpc = "returned"
    /\ Ops("send_message") # {}
    /\ \E k \in LibraryRaises :
         /\ log[k].arg.at = "request"
         /\ log[k].arg.exc.type = "Exception"
         /\ log[k].arg.exc.msg = Chars_privacy
         /\ result[1].status = PRIVACY

----------------------------------------------------------------------------
(* C2 *)

\* C2: call_multiple enters call() once per username, in the order given,
\* whatever the earlier attempts returned, and returns one CallResult per
\* username, in that order, each carrying the username as given.
C2_EveryTargetAttemptedOnce ==
    /\ pc = "call_multiple" =>
         /\ Attempted = SubSeq(usernames, 1, IF cpc = "entry" THEN idx - 1 ELSE idx)
         /\ results = SubSeq(Returned, 1, idx - 1)
         /\ c_username = usernames[idx]
    /\ pc = "batch_done" =>
         /\ Attempted = usernames
         /\ results = Returned
         /\ Len(results) = Len(usernames)
         /\ \A k \in 1..Len(usernames) : results[k].username = usernames[k]

\* A batch of three ended whose first attempt failed and whose second did not.
C2_Witness ==
    /\ pc = "batch_done"
    /\ Len(usernames) = 3
    /\ results[1].status = FAILED
    /\ results[2].status = SUCCESS
    /\ results[3].status = NOT_FOUND

----------------------------------------------------------------------------
(* C3 *)

\* C3, as claimed: with a pre-call message set, every request call is preceded,
\* in its attempt, by send_message of that message, for one target and for a
\* batch alike; with none set, nothing is sent.
C3_MessagePrecedesEveryCall ==
    /\ pre_message # None =>
         \A k \in Ops("request") :
           \E j \in Ops("send_message") :
             j < k /\ SameAttempt(j, k) /\ log[j].arg.message = pre_message[1]
    /\ pre_message = None => Ops("send_message") = {}

----------------------------------------------------------------------------
(* C4 *)

\* C4: in one attempt each library call is made at most once and a raise before
\* the discard is followed by the return at once; after a FLOOD result in a
\* batch the next attempt follows one sleep of the inter-call delay, whatever
\* the seconds reported.
C4_NoRetryNoAutoWait ==
    /\ \A op \in {"get_entity", "send_message", "request", "discard"} :
         \A j \in Ops(op) : \A k \in Ops(op) : SameAttempt(j, k) => j = k
    /\ \A k \in Ops("raise") : log[k].arg.at # "discard" => log[k + 1].op = "return"
    /\ \A k \in Ops("return") :
         (log[k].arg.status = FLOOD /\ k < Len(log)) =>
           /\ log[k + 1] = Ev("sleep", Num(1))
           /\ k + 1 < Len(log) => log[k + 2].op = "call"

\* A batch whose first attempt returned FLOOD with 60 seconds and whose second
\* reached the request call.
C4_Witness ==
    /\ pc = "call_multiple"
    /\ idx = 2
    /\ cpc = "ring"
    /\ results[1].status = FLOOD
    /\ results[1].message.seconds = 60

----------------------------------------------------------------------------
(* C5 *)

\* C5, as claimed: once call() has returned, every call the request call gave
\* was discarded with its id and access hash, later in the same attempt; a
\* discard is made only for a call that was given; a raise of the discard
\* leaves the result SUCCESS.
C5_DiscardFollowsRequest ==
    /\ cpc = "returned" =>
         \A k \in Ops("requested") :
           \E j \in Ops("discard") : j > k /\ SameAttempt(j, k) /\ log[j].arg = log[k].arg
    /\ \A j \in Ops("discard") :
         \E k \in Ops("requested") : k < j /\ SameAttempt(j, k) /\ log[j].arg = log[k].arg
    /\ \A k \in Ops("raise") :
         log[k].arg.at = "discard" => log[k + 1].op = "return" /\ log[k + 1].arg.status = SUCCESS

----------------------------------------------------------------------------
(* C6 *)

\* The calls the request call gave that no discard was made for.
Undiscarded ==
    {k \in Ops("requested") :
       ~\E j \in Ops("discard") : j > k /\ SameAttempt(j, k) /\ log[j].arg = log[k].arg}

\* C6, as claimed: an attempt begins only when the one before has returned, so
\* at most one call of the script is between its request and its discard; the
\* inter-call delay is slept once between two attempts and not after the last.
C6_OneCallAtATime ==
    /\ \A k \in Ops("call") : k > 1 => log[k - 1] = Ev("sleep", Num(1)) /\ log[k - 2].op = "return"
    /\ \A k \in Ops("return") : k < Len(log) => log[k + 1] = Ev("sleep", Num(1))
    /\ pc = "batch_done" => log[Len(log)].op = "return"
    /\ Cardinality(Undiscarded) <= 1

----------------------------------------------------------------------------
(* C7 *)

\* The text of the file has two lines or more, the first of them an integer.
HoldsTwoLines(content) ==
    /\ \E k \in 1..(Len(content) - 1) : content[k] = "\n"
    /\ LET first == CHOOSE k \in 1..Len(content) : content[k] = "\n" /\ \A j \in 1..(k - 1) : content[j] # "\n"
       IN  ParseInt(SubSeq(content, 1, first - 1)) # None

\* C7, as claimed: what load_config returns in a run after save_config(api_id,
\* api_hash) is that pair, for every pair the setup prompt gives; and it
\* returns (None, None) only when the file is absent or does not hold two
\* lines with an integer first.
C7_ConfigRoundTrip ==
    /\ (cfg_pc = "loaded" /\ saved # None) =>
         /\ api_id = Some(saved[1][1])
         /\ api_hash = Some(saved[1][2])
    /\ (cfg_pc = "loaded" /\ api_id = None) =>
         config_file = None \/ ~HoldsTwoLines(config_file[1])

----------------------------------------------------------------------------
(* C8 *)

\* t is u less the whitespace around it and less one "@" at its start.
IsNormalOf(t, u) ==
    \E i \in 1..(Len(u) + 1) : \E j \in 0..Len(u) :
      /\ \A m \in 1..(i - 1) : u[m] = " "
      /\ \A m \in (j + 1)..Len(u) : u[m] = " "
      /\ \/ i > j
         \/ u[i] # " " /\ u[j] # " "
      /\ LET core == IF i > j THEN <<>> ELSE SubSeq(u, i, j)
         IN  t = IF core # <<>> /\ core[1] = "@" THEN SubSeq(core, 2, Len(core)) ELSE core

\* The characters of t are digits, and there is one at least.
OnlyDigits(t) ==
    /\ Len(t) > 0
    /\ \A m \in 1..Len(t) : t[m] \in {"0", "1", "2", "3", "4", "5", "6", "7", "8", "9", "sup2"}

\* C8, as claimed: every username is looked up, under its normal form: as the
\* integer it spells when that is made of digits only, as a username if not;
\* and the CallResult carries the username as given.
C8_Normalization ==
    /\ cpc # "entry" =>
         \E k \in Ops("get_entity") :
           \E t \in StringsOver(CallAlphabet, Len(c_username)) :
             /\ IsNormalOf(t, c_username)
             /\ IF OnlyDigits(t)
                THEN log[k].arg.kind = "id" /\ log[k].arg.id = DecimalValue(t)
                ELSE log[k].arg.kind = "username" /\ log[k].arg.name = t
    /\ \A k \in Ops("return") : log[k].arg.username = c_username

----------------------------------------------------------------------------
(* C9 *)

LineSetsTime(l) ==
    IsCommand(l) /\ Cmd(l) = Chars_time /\ Arg(l) # <<>> /\ ParseFloat(Arg(l)) # None

LineSetsMessage(l) == IsCommand(l) /\ Cmd(l) = Chars_msg /\ Arg(l) # <<>>

MessageOf(l) == IF Lower(Arg(l)) = <<"o", "f", "f">> THEN None ELSE Some(Arg(l))

C9_Step ==
    /\ ring_duration' # ring_duration =>
         pc = "prompt" /\ LineSetsTime(line') /\ ring_duration' = ParseFloat(Arg(line'))[1]
    /\ pre_message' # pre_message =>
         pc = "prompt" /\ LineSetsMessage(line') /\ pre_message' = MessageOf(line')
    /\ cpc' = "entry" => c_duration' = ring_duration'

C9_State ==
    /\ pc \in {"connect", "auth_phone", "auth_code", "auth_2fa"} =>
         ring_duration = Num(5) /\ pre_message = None
    /\ LineSetsTime(line) => ring_duration = ParseFloat(Arg(line))[1]
    /\ LineSetsMessage(line) => pre_message = MessageOf(line)
    /\ cpc # "idle" => c_duration = ring_duration

\* C9: the settings start as 5.0 and no message; the ring duration changes
\* only on /time with an argument that parses, to that number; the message
\* changes only on /msg with an argument, to None for "off" in any letter case
\* and to the argument if not; no other line and no call changes either; and
\* every call rings for the ring duration of the time its line was entered.
C9_SettingsPersist == [][C9_Step]_vars /\ []C9_State

\* A call that returned FLOOD while the duration was 7.0 and a message was set.
C9_Witness ==
    /\ pc = "call_single"
    /\ cpc = "returned"
    /\ result[1].status = FLOOD
    /\ ring_duration = Num(7)
    /\ pre_message = Some(<<"h", "i">>)

----------------------------------------------------------------------------
(* C10 *)

\* C10: the loop runs, and a call is placed, only after connect() returned
\* True; it returns True only with the client authorized (it was, or a sign_in
\* succeeded) and me set; a flood wait on the code request and a failed 2FA
\* sign_in make it return False and the program end; an invalid phone number
\* or code leads back to its prompt.
C10_OnlyAuthorizedCalls ==
    /\ pc \in {"prompt", "call_single", "call_multiple", "batch_done"} => conn = Some(TRUE)
    /\ cpc # "idle" => conn = Some(TRUE)
    /\ conn = Some(TRUE) =>
         /\ authorized
         /\ me # None
         /\ auth_ev \in {"none", "signed_in", "signed_in_2fa"}
    /\ auth_ev \in {"code_flood", "2fa_failed"} => conn = Some(FALSE)
    /\ conn = Some(FALSE) => pc = "exit"
    /\ auth_ev = "phone_invalid" => pc \in {"auth_phone"} /\ conn = None
    /\ auth_ev = "code_invalid" => pc \in {"auth_code"} /\ conn = None

\* A call is ringing in a session that signed in with the 2FA password.
C10_Witness ==
    /\ cpc = "ring"
    /\ auth_ev = "signed_in_2fa"

====
